---------------------------- MODULE Spec2Model ----------------------------
(***************************************************************************)
(* The media assembly pipeline of emili-adoption-video-api:                *)
(*   backend/generate.py  generate_video  (the orchestrator)               *)
(*   backend/edit.py      collect_clips, pick_visuals, assemble_video      *)
(*   backend/audio.py     synth_voiceover, build_audio_track               *)
(*   backend/config.py    PetProjectConfig.validate                        *)
(*   backend/story.py     load_metadata, build_story                       *)
(*                                                                         *)
(* Durations are whole seconds.  A candidate clip is the outcome of its    *)
(* probe: Broken (VideoFileClip raises), 0 (no duration reported) or its   *)
(* real duration d > 0.  Media handles are records [kind, id]; a clip      *)
(* derived from a reader (subclip, resize, set_audio) shares that reader's *)
(* handle, and closing a composite audio clip is taken to close the        *)
(* readers it was built from.                                              *)
(***************************************************************************)
EXTENDS Integers, Sequences, FiniteSets, TLC

\* ------------------------------------------------------------- bounds
MaxT == 3
MaxV == 1
MaxDur == 2
MaxClips == 2
MaxWords == 4
MaxSentences == 3
MaxTokens == 5
MaxMusic == 3

\* ---------------------------------------------------------- constants
\* pad = 1.0 in _compute_effective_duration
Pad == 1

Broken == 0 - 1

ClipKinds == Broken .. MaxDur

RECURSIVE SeqsUpTo(_, _)
SeqsUpTo(S, n) ==
    IF n = 0 THEN {<<>>}
    ELSE LET shorter == SeqsUpTo(S, n - 1)
         IN shorter \cup {Append(s, x) : s \in {t \in shorter : Len(t) = n - 1}, x \in S}

Min(a, b) == IF a <= b THEN a ELSE b

Max(a, b) == IF a >= b THEN a ELSE b

RECURSIVE SumDur(_)
SumDur(s) == IF s = <<>> THEN 0 ELSE s[1].duration + SumDur(Tail(s))

H(kind, id) == [kind |-> kind, id |-> id]

\* ------------------------------------------------------ pure functions

\* generate.py: _compute_effective_duration; vd is <<>> (None) or <<v>>
compute_effective_duration_nopad(T, vd) ==
    IF vd # <<>> /\ vd[1] > 0 THEN Min(T, vd[1]) ELSE T

\* an absent narration counted as one of zero length
compute_effective_duration_silent(T, vd) ==
    Min(T, (IF vd # <<>> THEN vd[1] ELSE 0) + Pad)

compute_effective_duration(T, vd) ==
    IF vd # <<>> /\ vd[1] > 0 THEN Min(T, vd[1] + Pad) ELSE T

\* a probe that finds every clip unreadable
safe_probe_duration_blind(p) == 0
\* a probe that reports a nominal second for a clip it cannot open
safe_probe_duration_nominal(p) == IF p = Broken THEN 1 ELSE p
\* edit.py: _safe_probe_duration: float(v.duration or 0), 0.0 when it raises
safe_probe_duration(p) == IF p = Broken THEN 0 ELSE p

\* a list that grows at the front
AppendClip_front(list, clip) == <<clip>> \o list
\* edit.py line 72 (visuals.append) and line 136 (clips.append)
AppendClip(list, clip) == Append(list, clip)

\* edit.py pick_visuals, lines 66-67: trim the clip that would overshoot
TrimToBudget_notrim(total, dur, target) == dur

\* a trim of every clip to one second
TrimToBudget_each(total, dur, target) == Min(dur, 1)

TrimToBudget(total, dur, target) ==
    IF total + dur > target THEN Max(0, target - total) ELSE dur

\* edit.py pick_visuals, the loop of lines 60-76
RECURSIVE PickLoop(_, _, _, _, _, _)
PickLoop(paths, target, i, vis, total, prb) ==
    IF i > Len(paths)
    THEN [visuals |-> vis, total |-> total, probed |-> prb]
    ELSE LET dur0 == safe_probe_duration(paths[i])
             prb2 == prb \cup {i}
         IN IF dur0 <= 0
            THEN PickLoop(paths, target, i + 1, vis, total, prb2)
            ELSE LET dur == TrimToBudget(total, dur0, target)
                     vis2 == AppendClip(vis, [path |-> i, duration |-> dur])
                     total2 == total + dur
                 IN IF dur <= 0
                    THEN [visuals |-> vis, total |-> total, probed |-> prb2]
                    ELSE IF total2 >= target
                         THEN [visuals |-> vis2, total |-> total2, probed |-> prb2]
                         ELSE PickLoop(paths, target, i + 1, vis2, total2, prb2)

\* a selector that probes every candidate before it selects
pick_visuals_probe_all(paths, target) ==
    [PickLoop(paths, target, 1, <<>>, 0, {}) EXCEPT !.probed = 1 .. Len(paths)]
\* edit.py pick_visuals
pick_visuals(paths, target) == PickLoop(paths, target, 1, <<>>, 0, {})

\* edit.py assemble_video, line 156
SyncPoint_longer(vdur, adur) == Max(vdur, adur)

SyncPoint(vdur, adur) == Min(vdur, adur)

\* -------------------------------------------------------------- state
\* two different subjects (pet folders) whose runs overlap in time
Subjects == {"a", "b"}

\* audio.py line 23: every run writes its narration to out/voiceovers/voiceover.mp3
VoicePath == "voiceovers/voiceover.mp3"
\* generate.py line 157: out/audio/<pet_dir.name>_mix.mp3
MixPath(s) == IF s = "a" THEN "audio/a_mix.mp3" ELSE "audio/b_mix.mp3"
\* app.py line 171: the output video is named from the subject's folder
OutPath(s) == IF s = "a" THEN "a_16x9.mp4" ELSE "b_16x9.mp4"

Files == {VoicePath} \cup {MixPath(s) : s \in Subjects}
             \cup {OutPath(s) : s \in Subjects}

\* a run that has not started: position, cfg.use_tts, the locals voice_file
\* and audio_file (a path or "none"), and what it has read and written
IdleRun == [pc |-> "idle", use_tts |-> FALSE, voice_file |-> "none",
            audio_file |-> "none", reads |-> {}, writes |-> {}]

VARIABLES
    pc,                 \* position of the current run of generate_video
    cfg,                \* PetProjectConfig of the current run
    script,             \* story.script is non-empty
    voiceDisk,          \* the narration file of this run as AudioFileClip finds
                        \* it: <<>> (not written) or <<[readable, len]>>
    voice_file,         \* generate_video: voice_file is not None
    voice_duration,     \* generate_video: <<>> (None) or <<seconds>>
    effective_duration, \* generate_video: effective_duration (0 before it is set)
    clip_paths,         \* generate_video: clip_paths
    visuals,            \* generate_video: visuals
    probed,             \* indices of clip_paths that pick_visuals opened
    audio_file,         \* generate_video: "none", "voice" or "mix"
    mixDisk,            \* the mix file of this run: <<>> or <<duration>>
    clips,              \* assemble_video: clips
    vdur,               \* assemble_video: vdur, <<>> before the concatenation
    final_clip,         \* assemble_video: <<>> (None) or <<duration>>
    audio_clip,         \* assemble_video: <<>> (None) or <<duration>>
    exc,                \* exception in flight ("none" when there is none)
    outFile,            \* the file at out_path: "none", "empty" or "data"
    result,             \* <<>> or <<GenResult>> returned by the current run
    opened,             \* handles opened in the current run
    closed,             \* handles closed in the current run
    wrote,              \* the current run wrote data to out_path
    rendered,           \* <<>> or <<duration of the video the current run encoded>>
    faults,             \* the failures that happened in the current run
    logged,             \* the failures of the current run that left a log entry
    heavy,              \* the heavy stages the current run has invoked: the
                        \* story (LLM), the speech synthesis, the audio mix
    estimate,           \* the call, if of estimate_sentence_durations:
                        \* <<[sentences, total_duration, durations]>>
    subtitles,          \* the call, if of build_subtitle_clips:
                        \* <<[script, total_duration, clips]>>
    audio_track,        \* the call, if of build_audio_track:
                        \* <<[total_visual_duration, voice, music, out]>>
    run,                \* two concurrent runs of generate_video, by subject
    disk                \* the files under out/ those two runs touch: the
                        \* subject whose run wrote the content, or "none"

vars == <<pc, cfg, script, voiceDisk, voice_file, voice_duration,
          effective_duration, clip_paths, visuals, probed, audio_file, mixDisk,
          clips, vdur, final_clip, audio_clip, exc, outFile, result, opened,
          closed, wrote, rendered, faults, logged, heavy, estimate, subtitles,
          audio_track, run, disk>>

\* the local variables of generate_video and of assemble_video
narration == <<voiceDisk, voice_file, voice_duration>>
selection == <<clip_paths, visuals, probed>>
asmLocals == <<clips, vdur, final_clip, audio_clip>>
\* the whole state of one run of the pipeline
pipeline == <<pc, cfg, script, narration, effective_duration, selection,
              audio_file, mixDisk, asmLocals, exc, outFile, result, opened,
              closed, wrote, rendered, faults, logged, heavy>>
\* the state of the components exercised on their own and of the two
\* concurrent runs
parts == <<estimate, subtitles, audio_track, run, disk>>

Init ==
    /\ pc = "idle"
    /\ cfg = [target_duration |-> 1, use_tts |-> FALSE, pet_dir_exists |-> TRUE]
    /\ script = FALSE
    /\ voiceDisk = <<>>
    /\ voice_file = FALSE
    /\ voice_duration = <<>>
    /\ effective_duration = 0
    /\ clip_paths = <<>>
    /\ visuals = <<>>
    /\ probed = {}
    /\ audio_file = "none"
    /\ mixDisk = <<>>
    /\ clips = <<>>
    /\ vdur = <<>>
    /\ final_clip = <<>>
    /\ audio_clip = <<>>
    /\ exc = "none"
    /\ outFile = "none"
    /\ result = <<>>
    /\ opened = {}
    /\ closed = {}
    /\ wrote = FALSE
    /\ rendered = <<>>
    /\ faults = {}
    /\ logged = {}
    /\ heavy = {}
    /\ estimate = <<>>
    /\ subtitles = <<>>
    /\ audio_track = <<>>
    /\ run = [s \in Subjects |-> IdleRun]
    /\ disk = [f \in Files |-> "none"]

\* generate.py GenResult; outfile is TRUE for a path and FALSE for None
GenResult(success, message, outfile, duration) ==
    [success |-> success, message |-> message, outfile |-> outfile,
     duration |-> duration]

\* a result that reports success for a failure
Failed_success(message) == GenResult(TRUE, message, TRUE, <<>>)
\* generate.py: GenResult(success=False, message=..., outfile=None, ...)
Failed(message) == GenResult(FALSE, message, FALSE, <<>>)

\* generate_video is left, by a return or by an exception that escapes: its
\* locals and those of assemble_video are gone
LeaveFrame ==
    /\ script' = FALSE
    /\ voiceDisk' = <<>>
    /\ voice_file' = FALSE
    /\ voice_duration' = <<>>
    /\ effective_duration' = 0
    /\ clip_paths' = <<>>
    /\ visuals' = <<>>
    /\ probed' = {}
    /\ audio_file' = "none"
    /\ mixDisk' = <<>>
    /\ clips' = <<>>
    /\ vdur' = <<>>
    /\ final_clip' = <<>>
    /\ audio_clip' = <<>>

Return(r) ==
    /\ pc' = "returned"
    /\ result' = <<r>>
    /\ exc' = "none"
    /\ LeaveFrame

Raise(e) ==
    /\ pc' = "raised"
    /\ exc' = e
    /\ LeaveFrame
    /\ UNCHANGED result

\* The handlers that catch an exception, report it and carry on: generate.py
\* lines 79-84 (narration measured, narration synthesised) and 147-165
\* (audio mix), audio.py lines 78, 101 and 112 (narration or music not
\* loaded, composite not built), edit.py lines 124-126 (clip not loaded),
\* 132-133 (clip not trimmed) and 182-187 (subtitles, to video_error.log)
HandlersThatLog == {"tts", "voice_unreadable", "music", "audio_mix",
                    "clip_load", "clip_trim", "subtitles"}

\* the log entries of a step: one for each failure of the step whose handler
\* reports it
Log == logged' = logged \cup ((faults' \ faults) \cap HandlersThatLog)

\* ------------------------------------------------- generate_video steps

\* A caller (server.py /generate, app.py) builds a config and calls
\* generate_video(cfg, out_path); every run is given the same out_path, and
\* the file there outlives the run.
StartRun ==
    /\ pc \in {"idle", "returned", "raised"}
    /\ heavy' = {}
    /\ UNCHANGED parts
    /\ \E T \in 1 .. MaxT, tts \in BOOLEAN, dir \in BOOLEAN :
           cfg' = [target_duration |-> T, use_tts |-> tts, pet_dir_exists |-> dir]
    /\ pc' = "validate"
    /\ exc' = "none"
    /\ result' = <<>>
    /\ opened' = {}
    /\ closed' = {}
    /\ wrote' = FALSE
    /\ rendered' = <<>>
    /\ faults' = {}
    /\ logged' = {}
    /\ UNCHANGED <<script, narration, effective_duration, selection, audio_file,
                   mixDisk, asmLocals, outFile>>

\* generate.py line 28 and config.py validate: called outside any try
Validate ==
    /\ pc = "validate"
    /\ UNCHANGED heavy
    /\ UNCHANGED parts
    /\ IF cfg.pet_dir_exists
       THEN /\ pc' = "metadata"
            /\ UNCHANGED <<script, narration, effective_duration, selection,
                           audio_file, mixDisk, asmLocals, exc, result, faults>>
       ELSE /\ Raise("FileNotFoundError")
            /\ faults' = faults \cup {"validate"}
    /\ UNCHANGED <<cfg, outFile, opened, closed, wrote, rendered>>
    /\ Log

\* generate.py lines 32-44 and story.py load_metadata: load_metadata in a try,
\* then metadata.get outside it
LoadMetadata ==
    /\ pc = "metadata"
    /\ UNCHANGED heavy
    /\ UNCHANGED parts
    /\ \E outcome \in {"ok", "raises", "not_an_object"} :
         CASE outcome = "ok" ->
                /\ pc' = "story"
                /\ UNCHANGED <<script, narration, effective_duration, selection,
                               audio_file, mixDisk, asmLocals, exc, result, faults>>
           [] outcome = "raises" ->
                /\ Return(Failed("Failed to load metadata"))
                /\ faults' = faults \cup {"metadata"}
           [] outcome = "not_an_object" ->
                /\ Raise("AttributeError")
                /\ faults' = faults \cup {"metadata"}
    /\ UNCHANGED <<cfg, outFile, opened, closed, wrote, rendered>>
    /\ Log

\* generate.py lines 47-57
BuildStory ==
    /\ pc = "story"
    /\ heavy' = heavy \cup {"story"}
    /\ UNCHANGED parts
    /\ \/ /\ \E s \in BOOLEAN : script' = s
          /\ pc' = "narration"
          /\ UNCHANGED <<narration, effective_duration, selection, audio_file,
                         mixDisk, asmLocals, exc, result, faults>>
       \/ /\ Return(Failed("Story generation failed"))
          /\ faults' = faults \cup {"story"}
    /\ UNCHANGED <<cfg, outFile, opened, closed, wrote, rendered>>
    /\ Log

\* generate.py lines 60-84: synth_voiceover, then the narration is measured
\* inside a with-block, which closes its reader
Narration ==
    /\ pc = "narration"
    /\ heavy' = IF cfg.use_tts THEN heavy \cup {"tts"} ELSE heavy
    /\ UNCHANGED parts
    /\ pc' = "duration"
    /\ IF ~cfg.use_tts
       THEN UNCHANGED <<narration, opened, closed, faults>>
       ELSE \/ \* synth_voiceover raises
               /\ voice_file' = FALSE
               /\ voice_duration' = <<>>
               /\ faults' = faults \cup {"tts"}
               /\ UNCHANGED <<voiceDisk, opened, closed>>
            \/ \* the file is written but AudioFileClip cannot read it
               /\ voiceDisk' = <<[readable |-> FALSE, len |-> 0]>>
               /\ voice_file' = TRUE
               /\ voice_duration' = <<>>
               /\ faults' = faults \cup {"voice_unreadable"}
               /\ UNCHANGED <<opened, closed>>
            \/ \* the file is written and measured
               \E len \in 0 .. MaxV :
                 /\ voiceDisk' = <<[readable |-> TRUE, len |-> len]>>
                 /\ voice_file' = TRUE
                 /\ voice_duration' = <<len>>
                 /\ opened' = opened \cup {H("vo_measure", 0)}
                 /\ closed' = closed \cup {H("vo_measure", 0)}
                 /\ UNCHANGED faults
    /\ UNCHANGED <<cfg, script, effective_duration, selection, audio_file,
                   mixDisk, asmLocals, exc, outFile, result, wrote, rendered>>
    /\ Log

\* generate.py lines 87-93
ResolveDuration ==
    /\ pc = "duration"
    /\ UNCHANGED heavy
    /\ UNCHANGED parts
    /\ pc' = "collect"
    /\ effective_duration' =
           compute_effective_duration(cfg.target_duration, voice_duration)
    /\ UNCHANGED <<cfg, script, narration, selection, audio_file, mixDisk,
                   asmLocals, exc, outFile, result, opened, closed, wrote,
                   rendered, faults>>
    /\ Log

\* generate.py lines 102-113 and edit.py collect_clips: a missing Clips/
\* folder and a folder without clip files both give the empty list
CollectClips ==
    /\ pc = "collect"
    /\ UNCHANGED heavy
    /\ UNCHANGED parts
    /\ \E paths \in SeqsUpTo(ClipKinds, MaxClips) :
         IF paths = <<>>
         THEN /\ Return(Failed("No video clips found in Clips"))
              /\ faults' = faults \cup {"no_clips"}
         ELSE /\ clip_paths' = paths
              /\ pc' = "pick"
              /\ UNCHANGED <<script, narration, effective_duration, visuals,
                             probed, audio_file, mixDisk, asmLocals, exc, result,
                             faults>>
    /\ UNCHANGED <<cfg, outFile, opened, closed, wrote, rendered>>
    /\ Log

\* generate.py lines 115-125
PickVisuals ==
    /\ pc = "pick"
    /\ UNCHANGED heavy
    /\ UNCHANGED parts
    /\ LET picked == pick_visuals(clip_paths, effective_duration)
       IN IF picked.visuals = <<>>
          THEN /\ Return(Failed("All clips were unreadable"))
               /\ faults' = faults \cup {"unreadable_clips"}
          ELSE /\ visuals' = picked.visuals
               /\ probed' = picked.probed
               /\ pc' = "audio"
               /\ UNCHANGED <<script, narration, effective_duration, clip_paths,
                              audio_file, mixDisk, asmLocals, exc, result, faults>>
    /\ UNCHANGED <<cfg, outFile, opened, closed, wrote, rendered>>
    /\ Log

\* generate.py lines 135-170 with audio.py build_audio_track (music_file=None,
\* so _find_default_music decides the music): the voice+music mix is built,
\* written to the mix file and closed; any failure falls back to the voice file
MusicOutcomes == {"none", "ok", "open_fails", "process_fails",
                  "find_raises", "find_raises_MemoryError"}

\* no audio at all when the mix fails
AudioFallback_none(voice) == "none"
\* the mix file named as the audio of a run without narration
AudioFallback_music(voice) == IF voice THEN "voice" ELSE "mix"
\* generate.py lines 160-170: without a mix the audio file is the narration
\* file if there is one, and None otherwise
AudioFallback(voice) == IF voice THEN "voice" ELSE "none"

BuildAudio ==
    /\ pc = "audio"
    /\ heavy' = IF voice_file THEN heavy \cup {"mix"} ELSE heavy
    /\ UNCHANGED parts
    /\ pc' = "asm_load"
    /\ IF ~voice_file
       THEN /\ audio_file' = AudioFallback(voice_file)
            /\ UNCHANGED <<mixDisk, opened, closed, faults>>
       ELSE \E music \in MusicOutcomes, composite_ok \in BOOLEAN, write_ok \in BOOLEAN :
              LET voH == IF voiceDisk[1].readable THEN {H("vo_mix", 0)} ELSE {}
                  raised == music \in {"find_raises", "find_raises_MemoryError"}
                  muH == IF music \in {"ok", "process_fails"}
                         THEN {H("music", 0)} ELSE {}
                  audio_clips == voH \cup (IF music = "ok" THEN muH ELSE {})
                  mixBuilt == ~raised /\ audio_clips # {} /\ composite_ok
                  written == mixBuilt /\ write_ok
              IN /\ opened' = opened \cup voH \cup muH
                                \cup (IF mixBuilt THEN {H("mix", 0)} ELSE {})
                 /\ closed' = IF written
                              THEN closed \cup {H("mix", 0)} \cup audio_clips
                              ELSE closed
                 /\ audio_file' = IF written THEN "mix"
                                  ELSE AudioFallback(voice_file)
                 /\ mixDisk' = IF written THEN <<effective_duration>> ELSE mixDisk
                 /\ faults' = faults
                      \cup (IF music \notin {"none", "ok"} THEN {"music"} ELSE {})
                      \cup (IF ~raised /\ audio_clips # {} /\ ~written
                            THEN {"audio_mix"} ELSE {})
    /\ UNCHANGED <<cfg, script, narration, effective_duration, selection,
                   asmLocals, exc, outFile, result, wrote, rendered>>
    /\ Log

\* ------------------------------------------------- assemble_video steps

LoadOutcomes == {"ok", "load_fails", "trim_fails", "resize_fails"}

\* edit.py lines 120-136: open each selected clip, trim it to its assigned
\* duration, resize it and append it to clips; a clip that cannot be opened is
\* skipped, a failed trim keeps the untrimmed clip, a failed resize propagates
RECURSIVE LoadLoop(_, _, _, _, _, _, _)
LoadLoop(vis, reals, oc, i, cl, op, fl) ==
    IF i > Len(vis)
    THEN [clips |-> cl, opened |-> op, exc |-> "none", faults |-> fl]
    ELSE IF oc[i] = "load_fails"
    THEN LoadLoop(vis, reals, oc, i + 1, cl, op, fl \cup {"clip_load"})
    ELSE LET sc == vis[i]
             real == reals[sc.path]
             trimmed == sc.duration < real /\ oc[i] # "trim_fails"
             dur == IF trimmed THEN sc.duration ELSE real
             op2 == op \cup {H("clip", sc.path)}
             fl2 == IF sc.duration < real /\ oc[i] = "trim_fails"
                    THEN fl \cup {"clip_trim"} ELSE fl
         IN IF oc[i] = "resize_fails"
            THEN [clips |-> cl, opened |-> op2, exc |-> "Exception",
                  faults |-> fl2 \cup {"clip_resize"}]
            ELSE LoadLoop(vis, reals, oc, i + 1,
                          AppendClip(cl, [path |-> sc.path, duration |-> dur]),
                          op2, fl2)

\* The outcomes that can happen to the selected clips: a trim fails only where
\* a trim is attempted, and nothing is loaded after a failed resize
LoadChoices ==
    {oc \in [1 .. Len(visuals) -> LoadOutcomes] :
        \A i \in 1 .. Len(visuals) :
            /\ oc[i] = "trim_fails" =>
                   visuals[i].duration < clip_paths[visuals[i].path]
            /\ \A j \in 1 .. Len(visuals) :
                   (j < i /\ oc[j] = "resize_fails") => oc[i] = "ok"}

\* edit.py lines 199-214: the finally block closes the clips of the list,
\* the audio clip and the final clip
Finally(cl, ac, fc) ==
    {H("clip", cl[i].path) : i \in 1 .. Len(cl)}
        \cup (IF ac # <<>> THEN {H("audio", 0)} ELSE {})
        \cup (IF fc # <<>> THEN {H("final", 0)} ELSE {})

\* edit.py lines 200-214: a close() that raises is passed over in silence;
\* the faults the finally block can add, given the handles it closes
CloseFaults(cl, ac, fc) ==
    IF Finally(cl, ac, fc) = {} THEN {{}} ELSE {{}, {"close"}}

\* edit.py lines 104-139
AsmLoadClips ==
    /\ pc = "asm_load"
    /\ UNCHANGED heavy
    /\ UNCHANGED parts
    /\ IF visuals = <<>>
       THEN /\ exc' = "RuntimeError"
            /\ pc' = "asm_exit"
            /\ faults' = faults \cup {"no_visuals"}
            /\ UNCHANGED <<clips, opened, closed>>
       ELSE \E oc \in LoadChoices :
              LET r == LoadLoop(visuals, clip_paths, oc, 1, <<>>, opened, faults)
              IN /\ clips' = r.clips
                 /\ opened' = r.opened
                 /\ IF r.exc # "none"
                    THEN /\ exc' = r.exc
                         /\ pc' = "asm_exit"
                         /\ \E cf \in CloseFaults(r.clips, audio_clip, final_clip) :
                                faults' = r.faults \cup cf
                         /\ closed' = closed \cup Finally(r.clips, audio_clip, final_clip)
                    ELSE IF r.clips = <<>>
                    THEN /\ exc' = "RuntimeError"
                         /\ pc' = "asm_exit"
                         /\ \E cf \in CloseFaults(r.clips, audio_clip, final_clip) :
                                faults' = r.faults \cup {"no_clip_survived"} \cup cf
                         /\ closed' = closed \cup Finally(r.clips, audio_clip, final_clip)
                    ELSE /\ pc' = "asm_concat"
                         /\ faults' = r.faults
                         /\ UNCHANGED <<exc, closed>>
    /\ UNCHANGED <<cfg, script, narration, effective_duration, selection,
                   audio_file, mixDisk, vdur, final_clip, audio_clip, outFile,
                   result, wrote, rendered>>
    /\ Log

\* edit.py lines 141-144
AsmConcat ==
    /\ pc = "asm_concat"
    /\ UNCHANGED heavy
    /\ UNCHANGED parts
    /\ \/ /\ vdur' = <<SumDur(clips)>>
          /\ final_clip' = <<SumDur(clips)>>
          /\ opened' = opened \cup {H("final", 0)}
          /\ pc' = "asm_sync"
          /\ UNCHANGED <<exc, closed, faults>>
       \/ /\ \E e \in {"Exception", "MemoryError"} : exc' = e
          /\ pc' = "asm_exit"
          /\ \E cf \in CloseFaults(clips, audio_clip, final_clip) :
                 faults' = faults \cup {"concat"} \cup cf
          /\ closed' = closed \cup Finally(clips, audio_clip, final_clip)
          /\ UNCHANGED <<vdur, final_clip, opened>>
    /\ UNCHANGED <<cfg, script, narration, effective_duration, selection,
                   audio_file, mixDisk, clips, audio_clip, outFile, result, wrote,
                   rendered>>
    /\ Log

\* The audio file handed to assemble_video, as AudioFileClip finds it
AudioOnDisk ==
    IF audio_file = "mix" THEN [readable |-> TRUE, len |-> mixDisk[1]]
    ELSE voiceDisk[1]

\* edit.py lines 147-166
AsmSync ==
    /\ pc = "asm_sync"
    /\ UNCHANGED heavy
    /\ UNCHANGED parts
    /\ IF audio_file = "none"
       THEN /\ pc' = "asm_write"
            /\ UNCHANGED <<final_clip, audio_clip, opened, closed, exc, faults>>
       ELSE IF ~AudioOnDisk.readable
       THEN /\ exc' = "Exception"
            /\ pc' = "asm_exit"
            /\ \E cf \in CloseFaults(clips, audio_clip, final_clip) :
                   faults' = faults \cup {"audio_open"} \cup cf
            /\ closed' = closed \cup Finally(clips, audio_clip, final_clip)
            /\ UNCHANGED <<final_clip, audio_clip, opened>>
       ELSE LET adur == AudioOnDisk.len
                sync == SyncPoint(vdur[1], adur)
            IN /\ opened' = opened \cup {H("audio", 0)}
               /\ IF adur > 0
                  THEN \/ /\ final_clip' = <<IF vdur[1] > sync THEN sync ELSE vdur[1]>>
                          /\ audio_clip' = <<IF adur > sync THEN sync ELSE adur>>
                          /\ pc' = "asm_write"
                          /\ UNCHANGED <<exc, closed, faults>>
                       \/ /\ audio_clip' = <<adur>>
                          /\ exc' = "Exception"
                          /\ pc' = "asm_exit"
                          /\ \E cf \in CloseFaults(clips, <<adur>>, final_clip) :
                                 faults' = faults \cup {"audio_attach"} \cup cf
                          /\ closed' = closed \cup Finally(clips, <<adur>>, final_clip)
                          /\ UNCHANGED final_clip
                  ELSE /\ audio_clip' = <<adur>>
                       /\ pc' = "asm_write"
                       /\ UNCHANGED <<final_clip, exc, closed, faults>>
    /\ UNCHANGED <<cfg, script, narration, effective_duration, selection,
                   audio_file, mixDisk, clips, vdur, outFile, result, wrote,
                   rendered>>
    /\ Log

\* edit.py lines 190-197: write_videofile writes the whole file, or raises
\* having written nothing, an empty file or a part of the file
WriteOutcomes == {"ok", "raises_nothing", "raises_empty", "raises_partial",
                  "MemoryError_nothing", "MemoryError_partial"}

\* the subtitle stage ends well or raises
SubtitleOutcomes == {"ok", "Exception", "MemoryError"}

\* a handler that lets MemoryError through
SubtitleCatches_narrow(e) == e = "Exception"
\* edit.py line 182: except Exception, which MemoryError is a subclass of
SubtitleCatches(e) == e \in {"Exception", "MemoryError"}

\* edit.py lines 167-214: the subtitles (a failure there is caught and
\* written to video_error.log), the encode, and the finally block
AsmWrite ==
    /\ pc = "asm_write"
    /\ UNCHANGED heavy
    /\ UNCHANGED parts
    /\ pc' = "asm_exit"
    /\ \E subs \in (IF script THEN SubtitleOutcomes ELSE {"ok"}),
          w \in WriteOutcomes,
          cf \in CloseFaults(clips, audio_clip, final_clip) :
         IF subs # "ok" /\ ~SubtitleCatches(subs)
         THEN /\ exc' = subs
              /\ faults' = faults \cup {"subtitles"} \cup cf
              /\ UNCHANGED <<outFile, wrote, rendered>>
         ELSE /\ outFile' =
                   CASE w = "ok" -> "data"
                     [] w = "raises_empty" -> "empty"
                     [] w \in {"raises_partial", "MemoryError_partial"} -> "data"
                     [] OTHER -> outFile
              /\ wrote' = (w \in {"ok", "raises_partial", "MemoryError_partial"})
              /\ rendered' = IF w = "ok" THEN final_clip ELSE rendered
              /\ exc' = CASE w = "ok" -> "none"
                          [] w \in {"MemoryError_nothing", "MemoryError_partial"} ->
                               "MemoryError"
                          [] OTHER -> "Exception"
              /\ faults' = faults
                     \cup (IF subs = "ok" THEN {} ELSE {"subtitles"})
                     \cup (IF w = "ok" THEN {} ELSE {"write"})
                     \cup cf
    /\ closed' = closed \cup Finally(clips, audio_clip, final_clip)
    /\ UNCHANGED <<cfg, script, narration, effective_duration, selection,
                   audio_file, mixDisk, asmLocals, result, opened>>
    /\ Log

\* generate.py line 200: out_path.exists() and out_path.stat().st_size > 0
OutPathNonEmpty_exists == outFile # "none"

OutPathNonEmpty == outFile = "data"

\* one message for every failure of the render
RenderMessage_generic(e) ==
    IF e = "none" THEN "Video generated successfully." ELSE "Rendering failed"
\* generate.py lines 185-189, 198-199 and 212: the message of the result
RenderMessage(e) ==
    CASE e = "none" -> "Video generated successfully."
      [] e = "MemoryError" -> "Rendering failed due to insufficient memory."
      [] OTHER -> "Rendering failed"

\* generate.py lines 175-217: the result of the render

RenderResult ==
    /\ pc = "asm_exit"
    /\ UNCHANGED heavy
    /\ UNCHANGED parts
    /\ Return(CASE exc = "none" ->
                     GenResult(TRUE, RenderMessage(exc), TRUE,
                               <<effective_duration>>)
                [] exc = "MemoryError" ->
                     GenResult(FALSE, RenderMessage(exc), FALSE, <<>>)
                [] OTHER ->
                     GenResult(FALSE, RenderMessage(exc), OutPathNonEmpty, <<>>))
    /\ UNCHANGED <<cfg, outFile, opened, closed, wrote, rendered, faults>>
    /\ Log

Next ==
    \/ StartRun
    \/ Validate
    \/ LoadMetadata
    \/ BuildStory
    \/ Narration
    \/ ResolveDuration
    \/ CollectClips
    \/ PickVisuals
    \/ BuildAudio
    \/ AsmLoadClips
    \/ AsmConcat
    \/ AsmSync
    \/ AsmWrite
    \/ RenderResult

Spec == Init /\ [][Next]_vars

\* ----------------------------------------------------- subtitles.py

\* The durations of subtitles.py are Python floats. They are modelled as
\* exact fractions n/d in lowest terms, so that equal values are equal records.
RECURSIVE GCD(_, _)
GCD(a, b) == IF b = 0 THEN a ELSE GCD(b, a % b)

Frac(n, d) == LET g == GCD(n, d) IN [n |-> n \div g, d |-> d \div g]
Whole(k) == Frac(k, 1)
FAdd(x, y) == Frac(x.n * y.d + y.n * x.d, x.d * y.d)
FMul(x, y) == Frac(x.n * y.n, x.d * y.d)
FDiv(x, y) == Frac(x.n * y.d, x.d * y.n)
FLe(x, y) == x.n * y.d <= y.n * x.d
FMax(x, y) == IF FLe(y, x) THEN x ELSE y

RECURSIVE FSum(_)
FSum(s) == IF s = <<>> THEN Whole(0) ELSE FAdd(s[1], FSum(Tail(s)))

\* A script is a sequence of whitespace-separated tokens: a word, a word
\* that ends in '.', '!' or '?', or a bracketed stage direction.
Tokens == {"word", "word.", "[dir]"}

\* subtitles.py split_sentences: the bracketed text is removed, the rest is
\* split after each terminal punctuation, and empty parts are dropped
RECURSIVE SplitLoop(_, _, _)
SplitLoop(tokens, part, parts_) ==
    IF tokens = <<>>
    THEN IF part = <<>> THEN parts_ ELSE Append(parts_, part)
    ELSE IF Head(tokens) = "word."
         THEN SplitLoop(Tail(tokens), <<>>,
                        Append(parts_, Append(part, Head(tokens))))
         ELSE SplitLoop(Tail(tokens), Append(part, Head(tokens)), parts_)

split_sentences(script_) ==
    LET Spoken(t) == t # "[dir]"
    IN  SplitLoop(SelectSeq(script_, Spoken), <<>>, <<>>)

\* subtitles.py line 25: approx_wps = 2.8
approx_wps == Frac(28, 10)

\* subtitles.py line 35, without the division by the raw total
Scale_unit(total_duration, total_raw) == Whole(1)
\* subtitles.py line 35: scale = total_duration / total_raw
Scale(total_duration, total_raw) == FDiv(total_duration, total_raw)

\* subtitles.py estimate_sentence_durations; a sentence is its sequence of
\* words, so len(s.split()) is its length
estimate_sentence_durations(sentences, total_duration) ==
    IF sentences = <<>> THEN <<>>
    ELSE LET n_words(i) == Max(1, Len(sentences[i]))
             raw == [i \in 1 .. Len(sentences) |->
                        FMax(Whole(1), FDiv(Whole(n_words(i)), approx_wps))]
             total_raw == FSum(raw)
         IN  IF total_raw.n <= 0
             THEN [i \in 1 .. Len(sentences) |->
                      FDiv(total_duration, Whole(Len(sentences)))]
             ELSE [i \in 1 .. Len(sentences) |->
                      FMul(raw[i], Scale(total_duration, total_raw))]

\* moviepy clip timing: set_start and set_duration move the end with them, a
\* crossfade only fades the mask of the clip
set_start(clip, t) == [clip EXCEPT !.start = t, !.end = FAdd(t, clip.duration)]
set_duration(clip, d) == [clip EXCEPT !.duration = d, !.end = FAdd(clip.start, d)]
crossfadein(clip, d) == [clip EXCEPT !.fadein = d]
crossfadeout(clip, d) == [clip EXCEPT !.fadeout = d]

\* subtitles.py lines 130-131: the crossfade of 0.15 s
Fade == Frac(15, 100)

\* subtitles.py make_subtitle_frame: ImageClip(frame_array).set_duration(1.0)
make_subtitle_frame(text) ==
    [text |-> text, start |-> Whole(0), duration |-> Whole(1),
     end |-> Whole(1), fadein |-> Whole(0), fadeout |-> Whole(0)]

\* subtitles.py line 136, with the cursor left where it was
Advance_stay(cur, dur) == cur
\* subtitles.py line 136: cur += dur
Advance(cur, dur) == FAdd(cur, dur)

\* subtitles.py lines 117-136: the loop over zip(sentences, durations)
RECURSIVE CueLoop(_, _, _, _, _)
CueLoop(sentences, durations, i, cur, clips_) ==
    IF i > Min(Len(sentences), Len(durations)) THEN clips_
    ELSE IF sentences[i] = <<>>
         THEN CueLoop(sentences, durations, i + 1, cur, clips_)
         ELSE LET frame == make_subtitle_frame(sentences[i])
                  clip == crossfadeout(
                              crossfadein(
                                  set_duration(set_start(frame, cur),
                                               durations[i]),
                                  Fade),
                              Fade)
              IN  CueLoop(sentences, durations, i + 1,
                          Advance(cur, durations[i]), Append(clips_, clip))

\* subtitles.py build_subtitle_clips
build_subtitle_clips(script_, total_duration) ==
    LET sentences == split_sentences(script_)
    IN  IF sentences = <<>> THEN <<>>
        ELSE CueLoop(sentences,
                     estimate_sentence_durations(sentences, total_duration),
                     1, Whole(0), <<>>)

\* each component is called once, from the initial state
NoCallYet == estimate = <<>> /\ subtitles = <<>> /\ audio_track = <<>>

\* k words with no punctuation
Words(k) == [i \in 1 .. k |-> "word"]

\* estimate_sentence_durations called with any list of sentences, each of
\* zero to MaxWords words, and a positive total duration
EstimateDurations ==
    /\ NoCallYet
    /\ \E counts \in SeqsUpTo(0 .. MaxWords, MaxSentences), D \in 1 .. MaxT :
           LET sentences == [i \in 1 .. Len(counts) |-> Words(counts[i])]
           IN  estimate' = <<[sentences |-> sentences,
                              total_duration |-> Whole(D),
                              durations |-> estimate_sentence_durations(
                                                sentences, Whole(D))]>>
    /\ subtitles' = <<>>
    /\ audio_track' = <<>>
    /\ UNCHANGED <<pipeline, run, disk>>

\* edit.py lines 170-175: build_subtitle_clips called with the script and the
\* duration of the video
BuildSubtitleClips ==
    /\ NoCallYet
    /\ \E script_ \in SeqsUpTo(Tokens, MaxTokens), D \in 1 .. MaxT :
           subtitles' = <<[script |-> script_,
                           total_duration |-> Whole(D),
                           clips |-> build_subtitle_clips(script_, Whole(D))]>>
    /\ estimate' = <<>>
    /\ audio_track' = <<>>
    /\ UNCHANGED <<pipeline, run, disk>>

\* --------------------------------------------- audio.py build_audio_track

\* audio.py line 90, without the extra copy
Loops_floor(total_visual_duration, m) == total_visual_duration \div m
\* audio.py line 90: loops = int(total_visual_duration // music.duration) + 1
Loops(total_visual_duration, m) == (total_visual_duration \div m) + 1

\* audio.py lines 85-100: the music file is opened, looped when it is
\* shorter than the video, and cut to the video's length; any exception
\* (the file cannot be opened, a division by a zero duration) drops the
\* music. The result is <<>> or <<the music segment>>.
MusicSegment(total_visual_duration, music) ==
    IF music = <<>> \/ music = <<Broken>> THEN <<>>
    ELSE LET m == music[1]
         IN  IF m < total_visual_duration /\ m = 0 THEN <<>>
             ELSE LET copies == IF m < total_visual_duration
                                THEN Loops(total_visual_duration, m) ELSE 1
                  IN  <<[copies |-> copies,
                         length |-> copies * m,
                         duration |-> total_visual_duration]>>

\* audio.py build_audio_track: voice and music are <<>> (no file),
\* <<Broken>> (a file that cannot be opened) or <<duration>>; composite
\* tells whether CompositeAudioClip succeeds. The track is <<>> (None) or
\* <<the composite>>.
build_audio_track(total_visual_duration, voice, music, composite) ==
    LET vo == IF voice = <<>> \/ voice = <<Broken>> THEN <<>>
              ELSE <<[duration |-> voice[1]]>>
        segment == MusicSegment(total_visual_duration, music)
        audio_clips == vo \o segment
    IN  [music |-> segment,
         track |-> IF audio_clips = <<>> \/ ~composite THEN <<>>
                   ELSE <<[sources |-> Len(audio_clips),
                           duration |-> total_visual_duration]>>]

\* generate.py lines 142-146: build_audio_track called with a target
\* duration, a narration file and the music file found under assets/music
BuildAudioTrack ==
    /\ NoCallYet
    /\ \E total \in 1 .. MaxT,
          voice \in {<<>>} \cup {<<v>> : v \in Broken .. MaxV},
          music \in {<<>>} \cup {<<m>> : m \in Broken .. MaxMusic},
          composite \in BOOLEAN :
           audio_track' = <<[total_visual_duration |-> total,
                             voice |-> voice,
                             music |-> music,
                             out |-> build_audio_track(total, voice, music,
                                                       composite)]>>
    /\ estimate' = <<>>
    /\ subtitles' = <<>>
    /\ UNCHANGED <<pipeline, run, disk>>

\* the components called on their own, with any arguments
NextParts ==
    \/ EstimateDurations
    \/ BuildSubtitleClips
    \/ BuildAudioTrack

SpecParts == Init /\ [][NextParts]_vars

\* ------------------------------------- two concurrent runs of generate_video

\* server.py /generate is a synchronous endpoint, so two requests run
\* generate_video in two worker threads at once; here they are for the two
\* different subjects and interleave at their file operations.
Step(s, r) == run' = [run EXCEPT ![s] = r]

\* the content a run finds at a path, with the subject whose run wrote it
Content(f) == [path |-> f, by |-> disk[f]]

ConcStart ==
    /\ \A s \in Subjects : run[s].pc \in {"idle", "done"}
    /\ \E tts \in [Subjects -> BOOLEAN] :
           run' = [s \in Subjects |-> [IdleRun EXCEPT !.pc = "synth",
                                                      !.use_tts = tts[s]]]
    /\ UNCHANGED <<pipeline, estimate, subtitles, audio_track, disk>>

\* generate.py lines 62-71 and audio.py synth_voiceover: the speech is saved
\* at the one path out/voiceovers/voiceover.mp3, unless the request fails
ConcSynth(s) ==
    /\ run[s].pc = "synth"
    /\ IF run[s].use_tts
       THEN \E ok \in BOOLEAN :
                IF ok
                THEN /\ disk' = [disk EXCEPT ![VoicePath] = s]
                     /\ Step(s, [run[s] EXCEPT
                                   !.pc = "measure",
                                   !.voice_file = VoicePath,
                                   !.writes = @ \cup {VoicePath}])
                ELSE /\ Step(s, [run[s] EXCEPT !.pc = "mix"])
                     /\ UNCHANGED disk
       ELSE /\ Step(s, [run[s] EXCEPT !.pc = "mix"])
            /\ UNCHANGED disk
    /\ UNCHANGED <<pipeline, estimate, subtitles, audio_track>>

\* generate.py lines 73-78: the narration file is opened to measure it
ConcMeasure(s) ==
    /\ run[s].pc = "measure"
    /\ Step(s, [run[s] EXCEPT !.pc = "mix",
                              !.reads = @ \cup {Content(run[s].voice_file)}])
    /\ UNCHANGED <<pipeline, estimate, subtitles, audio_track, disk>>

\* generate.py lines 138-170: with a narration file, the mix is built from
\* it and written to out/audio/<pet_dir.name>_mix.mp3, or the narration file
\* itself becomes the audio file
ConcMix(s) ==
    /\ run[s].pc = "mix"
    /\ IF run[s].voice_file # "none"
       THEN \E mixed \in BOOLEAN :
                IF mixed
                THEN /\ disk' = [disk EXCEPT ![MixPath(s)] = s]
                     /\ Step(s, [run[s] EXCEPT
                                   !.pc = "render",
                                   !.audio_file = MixPath(s),
                                   !.reads = @ \cup {Content(run[s].voice_file)},
                                   !.writes = @ \cup {MixPath(s)}])
                ELSE /\ Step(s, [run[s] EXCEPT !.pc = "render",
                                               !.audio_file = run[s].voice_file])
                     /\ UNCHANGED disk
       ELSE /\ Step(s, [run[s] EXCEPT !.pc = "render"])
            /\ UNCHANGED disk
    /\ UNCHANGED <<pipeline, estimate, subtitles, audio_track>>

\* generate.py lines 175-190 and edit.py lines 147-197: assemble_video opens
\* the audio file and writes the video to out_path, unless rendering fails
ConcRender(s) ==
    /\ run[s].pc = "render"
    /\ \E written \in BOOLEAN :
           LET heard == IF run[s].audio_file = "none" THEN {}
                        ELSE {Content(run[s].audio_file)}
           IN  IF written
               THEN /\ disk' = [disk EXCEPT ![OutPath(s)] = s]
                    /\ Step(s, [run[s] EXCEPT !.pc = "done",
                                              !.reads = @ \cup heard,
                                              !.writes = @ \cup {OutPath(s)}])
               ELSE /\ Step(s, [run[s] EXCEPT !.pc = "done",
                                              !.reads = @ \cup heard])
                    /\ UNCHANGED disk
    /\ UNCHANGED <<pipeline, estimate, subtitles, audio_track>>

NextConc ==
    \/ ConcStart
    \/ \E s \in Subjects : ConcSynth(s)
    \/ \E s \in Subjects : ConcMeasure(s)
    \/ \E s \in Subjects : ConcMix(s)
    \/ \E s \in Subjects : ConcRender(s)

SpecConc == Init /\ [][NextConc]_vars

\* ------------------------------------------------------------- claims

\* C1: whatever the candidate list, the probe outcomes and the effective
\* duration E > 0, the assigned durations of the clips pick_visuals returns
\* sum to at most E.
C1_SelectedWithinBudget ==
    /\ pc = "pick" =>
         SumDur(pick_visuals(clip_paths, effective_duration).visuals)
             <= effective_duration
    /\ visuals # <<>> => SumDur(visuals) <= effective_duration

\* C1 witness: two clips were selected, the last one trimmed to close the gap.
C1_Witness ==
    /\ pc = "audio"
    /\ Len(visuals) = 2
    /\ visuals[2].duration < clip_paths[visuals[2].path]
    /\ SumDur(visuals) = effective_duration

\* C2: E = min(T, V + 1) when a narration duration V > 0 was measured, and
\* E = T otherwise (no narration, narration not measurable, or V = 0).
C2_EffectiveDuration ==
    effective_duration # 0 =>
        effective_duration =
            IF voice_file /\ voiceDisk[1].readable /\ voiceDisk[1].len > 0
            THEN (IF voiceDisk[1].len + 1 < cfg.target_duration
                  THEN voiceDisk[1].len + 1 ELSE cfg.target_duration)
            ELSE cfg.target_duration

\* C2 witness: a measured narration that is shorter than the target by more
\* than the padding, so that E = V + 1 < T.
C2_Witness ==
    /\ pc = "collect"
    /\ voice_duration # <<>>
    /\ voice_duration[1] > 0
    /\ effective_duration = voice_duration[1] + 1
    /\ effective_duration < cfg.target_duration

\* C3: the duration of the video a run encodes never exceeds the configured
\* target duration T.
C3_RenderedWithinTarget ==
    rendered # <<>> => rendered[1] <= cfg.target_duration

\* C4: when an audio file of duration a > 0 is attached to a concatenation of
\* duration v > 0, after the sync step the video and the audio both last
\* min(v, a); the shorter of the two is left as it was.
C4_SyncToShorter ==
    (pc = "asm_write" /\ audio_clip # <<>> /\ AudioOnDisk.len > 0) =>
        LET v == SumDur(clips)
            a == AudioOnDisk.len
            shorter == IF v <= a THEN v ELSE a
        IN /\ v > 0
           /\ final_clip = <<shorter>>
           /\ audio_clip = <<shorter>>

\* C4 witness: the audio is shorter than the video, and the video was cut.
C4_Witness ==
    /\ pc = "asm_write"
    /\ audio_clip # <<>>
    /\ AudioOnDisk.len > 0
    /\ AudioOnDisk.len < SumDur(clips)
    /\ final_clip = <<AudioOnDisk.len>>

\* C5: when assemble_video exits, by return or by exception, every clip
\* handle it opened, the audio handle and the final clip are closed.
C5_AssembleClosesAll ==
    pc = "asm_exit" =>
        \A h \in opened : h.kind \in {"clip", "audio", "final"} => h \in closed

\* C6: when generate_video returns its result, the narration reader used for
\* the measurement, the readers opened by build_audio_track and the mixed
\* audio clip are closed.
C6_AudioHandlesClosed ==
    pc = "returned" =>
        \A h \in opened :
            h.kind \in {"vo_measure", "vo_mix", "music", "mix"} => h \in closed

\* C7: every run ends by returning exactly one GenResult; no failure leaves
\* the run without a returned result.
C7_EveryRunReturns ==
    pc \in {"returned", "raised"} => (pc = "returned" /\ Len(result) = 1)

\* The failures that are not degradable: of the input, of the clips and of
\* the encode.
HardFaults == {"validate", "metadata", "story", "no_clips", "unreadable_clips",
               "no_visuals", "clip_load", "clip_trim", "clip_resize",
               "no_clip_survived", "concat", "audio_attach", "write"}

\* C8: a run in which only degradable failures happened (narration, music,
\* audio mix, subtitles) returns success = true.
C8_DegradableNeverFails ==
    (pc = "returned" /\ faults \cap HardFaults = {}) => result[1].success

\* C9 as stated: whenever assemble_video fails, the result has success = false
\* and its outfile is the output path exactly when a non-empty file is there.
C9_RenderFailureOutfile ==
    [][(pc = "asm_exit" /\ pc' = "returned" /\ exc # "none") =>
          /\ ~result'[1].success
          /\ result'[1].outfile = (outFile = "data")]_vars

\* C9 amended: whenever assemble_video fails with an exception other than
\* MemoryError, the result has success = false and its outfile is the output
\* path exactly when a non-empty file is there; when it fails with
\* MemoryError, the result has success = false and no outfile.
C9_RenderFailureOutfileAmended ==
    [][(pc = "asm_exit" /\ pc' = "returned" /\ exc # "none") =>
          /\ ~result'[1].success
          /\ result'[1].outfile =
                 (IF exc = "MemoryError" THEN FALSE ELSE outFile = "data")]_vars

\* C9 witness: the encode failed having written a part of the file, and the
\* failed result carries the output path.
C9_Witness ==
    /\ pc = "returned"
    /\ "write" \in faults
    /\ wrote
    /\ ~result[1].success
    /\ result[1].message = "Rendering failed"
    /\ result[1].outfile

\* C10: a result carries an outfile only if its run succeeded or its run's
\* own render wrote a non-empty file to the output path.
C10_OutfileOnlyIfWritten ==
    pc = "returned" => (result[1].outfile => (result[1].success \/ wrote))

\* generate.py lines 108 and 120: the failure messages that interpolate
\* clips_dir
NamesClipsDir(message) == message \in {"No video clips found in Clips"}

\* C11: whenever the Clips/ folder yields no readable clip, because it holds
\* no clip file or because every clip file is unreadable at probe, the run
\* returns success = false, no outfile and a message that names the clips
\* directory.
C11_NoReadableClipsResult ==
    [][((pc = "collect" /\ pc' = "returned")
          \/ (pc = "pick" /\ pc' # "pick"
                /\ \A i \in 1 .. Len(clip_paths) : clip_paths[i] <= 0)) =>
          /\ pc' = "returned"
          /\ ~result'[1].success
          /\ ~result'[1].outfile
          /\ NamesClipsDir(result'[1].message)]_vars

PathsRead(s) == {r.path : r \in run[s].reads}

\* C12: two concurrent runs for different subjects are independent: neither
\* writes a file path that the other reads or writes, and everything a run
\* reads was produced by that same run.
C12_ConcurrentRunsIndependent ==
    \A s \in Subjects : \A t \in Subjects \ {s} :
        /\ run[s].writes \cap (run[t].writes \cup PathsRead(t)) = {}
        /\ \A r \in run[s].reads : r.by = s

\* C13: when the Clips/ folder is missing or holds no clip file, the run
\* fails before any heavy stage is invoked: neither story generation nor
\* speech synthesis has run when the failure is reported.
C13_NoClipsFailsBeforeHeavy == "no_clips" \in faults => heavy = {}

\* the weight max(1, word_count / 2.8) of a sentence, in fourteenths
RawWeight(sentence) == Max(14, 5 * Len(sentence))

\* C14: the cues of build_subtitle_clips are contiguous and do not overlap:
\* the first starts at 0, each next one starts where the one before ends,
\* and the fades leave the start and the estimated duration of a cue as set.
C14_CuesContiguous ==
    subtitles # <<>> =>
        LET c == subtitles[1].clips
            d == estimate_sentence_durations(
                     split_sentences(subtitles[1].script),
                     subtitles[1].total_duration)
        IN  /\ c # <<>> => c[1].start = Whole(0)
            /\ \A i \in 1 .. Len(c) - 1 :
                   c[i + 1].start = FAdd(c[i].start, c[i].duration)
            /\ \A i \in 1 .. Len(c) :
                   /\ c[i].fadein = Fade /\ c[i].fadeout = Fade
                   /\ c[i].duration = d[i]
                   /\ c[i].end = FAdd(c[i].start, c[i].duration)

\* two cues of different lengths from a script with a stage direction
C14_Witness ==
    /\ subtitles # <<>>
    /\ Len(subtitles[1].clips) = 2
    /\ "[dir]" \in {subtitles[1].script[i] : i \in 1 .. Len(subtitles[1].script)}
    /\ subtitles[1].clips[1].duration # subtitles[1].clips[2].duration
    /\ subtitles[1].clips[2].start.n > 0

\* C15: for at least one sentence and a total duration D > 0, the durations
\* of estimate_sentence_durations are proportional to
\* max(1, word_count / 2.8) and sum to D, so the last cue ends at D.
C15_DurationsTileTotal ==
    /\ (estimate # <<>> /\ estimate[1].sentences # <<>>) =>
           LET e == estimate[1]
               n == Len(e.sentences)
           IN  /\ Len(e.durations) = n
               /\ FSum(e.durations) = e.total_duration
               /\ \A i \in 1 .. n : \A j \in 1 .. n :
                      FMul(e.durations[i], Whole(RawWeight(e.sentences[j])))
                        = FMul(e.durations[j], Whole(RawWeight(e.sentences[i])))
    /\ (subtitles # <<>> /\ subtitles[1].clips # <<>>) =>
           subtitles[1].clips[Len(subtitles[1].clips)].end
             = subtitles[1].total_duration

\* sentences of one and of four words share a total of two seconds
C15_Witness ==
    /\ estimate # <<>>
    /\ estimate[1].sentences = <<Words(1), Words(4)>>
    /\ estimate[1].total_duration = Whole(2)
    /\ estimate[1].durations[1] # estimate[1].durations[2]

\* C16: whenever build_audio_track returns a track, its duration equals
\* the target; for music of duration m with 0 < m < target, the
\* floor(target / m) + 1 copies concatenated are at least as long as the
\* target before the trim, and the music segment has the target's length.
C16_TrackDurationIsTarget ==
    audio_track # <<>> =>
        LET a == audio_track[1]
            target == a.total_visual_duration
        IN  /\ a.out.track # <<>> => a.out.track[1].duration = target
            /\ (a.music # <<>> /\ 0 < a.music[1] /\ a.music[1] < target) =>
                   /\ a.out.music # <<>>
                   /\ a.out.music[1].copies = (target \div a.music[1]) + 1
                   /\ a.out.music[1].length >= target
                   /\ a.out.music[1].duration = target

\* build_audio_track returned a track whose music was looped
C16_Witness ==
    /\ audio_track # <<>>
    /\ audio_track[1].out.track # <<>>
    /\ audio_track[1].music = <<2>>
    /\ audio_track[1].total_visual_duration = 3
    /\ audio_track[1].out.music[1].copies = 2

\* the candidates of a list that a probe can read
Readable(paths) == {i \in 1 .. Len(paths) : paths[i] > 0}

\* C17: for E > 0, if at least one candidate is readable, pick_visuals
\* returns a non-empty sequence whose total assigned duration is > 0; it
\* returns the empty sequence only when no candidate is readable.
C17_NonEmptyIffReadable ==
    /\ pc = "pick" =>
           LET r == pick_visuals(clip_paths, effective_duration)
           IN  /\ effective_duration > 0
               /\ Readable(clip_paths) # {} =>
                      r.visuals # <<>> /\ SumDur(r.visuals) > 0
               /\ r.visuals = <<>> => Readable(clip_paths) = {}
    /\ visuals # <<>> => SumDur(visuals) > 0 /\ Readable(clip_paths) # {}

\* the only readable candidate is the last one, and it was selected
C17_Witness ==
    /\ pc = "audio"
    /\ Len(clip_paths) = 2
    /\ Readable(clip_paths) = {2}
    /\ Len(visuals) = 1
    /\ SumDur(visuals) > 0

Durations(vis) == [k \in 1 .. Len(vis) |-> vis[k].duration]

\* C18: a candidate whose probe fails (it throws, or reports a duration
\* <= 0) never appears in the result of pick_visuals and adds nothing to the
\* running total: the durations assigned are those assigned when the
\* unreadable candidates are left out of the list.
C18_UnreadableSkipped ==
    /\ pc = "pick" =>
           LET r == pick_visuals(clip_paths, effective_duration)
               IsReadable(p) == p > 0
               clean == pick_visuals(SelectSeq(clip_paths, IsReadable),
                                     effective_duration)
           IN  /\ \A k \in 1 .. Len(r.visuals) :
                      r.visuals[k].path \in Readable(clip_paths)
               /\ Durations(r.visuals) = Durations(clean.visuals)
               /\ r.total = clean.total
    /\ \A k \in 1 .. Len(visuals) : visuals[k].path \in Readable(clip_paths)

\* the first candidate cannot be opened, and the selection went on to the
\* second
C18_Witness ==
    /\ pc = "audio"
    /\ Len(clip_paths) = 2
    /\ clip_paths[1] = Broken
    /\ probed = {1, 2}
    /\ visuals # <<>>
    /\ visuals[1].path = 2

\* the positions in the candidate list of the clips of a list, in order
Paths(list) == [k \in 1 .. Len(list) |-> list[k].path]
Increasing(s) == \A k \in 1 .. Len(s) - 1 : s[k] < s[k + 1]

\* C19: the sequence returned by pick_visuals is an order-preserving
\* subsequence of the candidate list with no candidate repeated, and
\* assemble_video concatenates the clips that survive loading in that order.
C19_OrderPreserved ==
    /\ pc = "pick" =>
           LET r == pick_visuals(clip_paths, effective_duration)
           IN  /\ Increasing(Paths(r.visuals))
               /\ \A k \in 1 .. Len(r.visuals) :
                      r.visuals[k].path \in 1 .. Len(clip_paths)
    /\ Increasing(Paths(visuals))
    /\ \A k \in 1 .. Len(visuals) : visuals[k].path \in 1 .. Len(clip_paths)
    /\ Increasing(Paths(clips))
    /\ \A k \in 1 .. Len(clips) :
           \E v \in 1 .. Len(visuals) : visuals[v].path = clips[k].path

\* two clips were selected and both were loaded for the concatenation
C19_Witness ==
    /\ pc = "asm_concat"
    /\ Paths(visuals) = <<1, 2>>
    /\ Paths(clips) = <<1, 2>>

\* the running total of pick_visuals when it comes to candidate j
TotalBefore(vis, j) ==
    LET Earlier(sc) == sc.path < j IN SumDur(SelectSeq(vis, Earlier))

\* C20: pick_visuals stops as soon as the running total reaches E: the
\* candidates probed are a prefix of the list, and no candidate is probed
\* once the running total is >= E.
C20_StopsAtBudget ==
    /\ pc = "pick" =>
           LET r == pick_visuals(clip_paths, effective_duration)
           IN  /\ \E n \in 0 .. Len(clip_paths) : r.probed = 1 .. n
               /\ \A j \in r.probed :
                      TotalBefore(r.visuals, j) < effective_duration
    /\ visuals # <<>> =>
           /\ \E n \in 0 .. Len(clip_paths) : probed = 1 .. n
           /\ \A j \in probed : TotalBefore(visuals, j) < effective_duration

\* the first clip filled the budget and the second, readable, was not probed
C20_Witness ==
    /\ pc = "audio"
    /\ Len(clip_paths) = 2
    /\ clip_paths[2] > 0
    /\ probed = {1}
    /\ SumDur(visuals) = effective_duration

\* the footage of the readable candidates of a list
RECURSIVE SumReadable(_)
SumReadable(paths) ==
    IF paths = <<>> THEN 0
    ELSE (IF paths[1] > 0 THEN paths[1] ELSE 0) + SumReadable(Tail(paths))

\* C21: for E > 0, the total assigned duration returned by pick_visuals is
\* min(E, sum of the durations of the readable candidates); with narration
\* and enough footage the visuals total exactly E = V + pad.
C21_TotalIsMinOfBudgetAndFootage ==
    /\ pc = "pick" =>
           LET r == pick_visuals(clip_paths, effective_duration)
           IN  /\ r.total = Min(effective_duration, SumReadable(clip_paths))
               /\ SumDur(r.visuals) = r.total
    /\ visuals # <<>> =>
           SumDur(visuals) = Min(effective_duration, SumReadable(clip_paths))

\* the narration is shorter than the target, E = V + pad, and more footage
\* than E was on offer
C21_Witness ==
    /\ pc = "audio"
    /\ voice_duration = <<1>>
    /\ cfg.target_duration > 1 + Pad
    /\ effective_duration = 1 + Pad
    /\ SumReadable(clip_paths) > effective_duration
    /\ SumDur(visuals) = effective_duration

\* the assigned durations of a selection, against the real durations
AssignedWithinReal(paths, vis, E) ==
    \A k \in 1 .. Len(vis) :
        LET d == vis[k].duration
            real == paths[vis[k].path]
        IN  /\ 0 < d /\ d <= real
            /\ k < Len(vis) => d = real
            /\ d < real =>
                   /\ k = Len(vis)
                   /\ d = E - SumDur(SubSeq(vis, 1, k - 1))

\* C29: for E > 0, every clip returned by pick_visuals has an assigned
\* duration d with 0 < d <= its real duration; every returned clip but the
\* last has d equal to its real duration, and a trimmed last clip is
\* assigned exactly E minus the running total.
C29_OnlyLastTrimmed ==
    /\ effective_duration > 0 =>
           AssignedWithinReal(clip_paths, visuals, effective_duration)
    /\ pc = "pick" =>
           AssignedWithinReal(clip_paths,
                              pick_visuals(clip_paths, effective_duration).visuals,
                              effective_duration)

\* of two clips selected, the first plays in full and the second is trimmed
C29_Witness ==
    /\ pc = "audio"
    /\ Len(visuals) = 2
    /\ visuals[1].duration = clip_paths[1]
    /\ visuals[2].duration < clip_paths[2]
    /\ visuals[2].duration = effective_duration - visuals[1].duration

\* the stages of a run, numbered in their order, by position
StageOf(p) ==
    CASE p = "metadata" -> 1
      [] p = "story" -> 2
      [] p = "narration" -> 3
      [] p = "duration" -> 4
      [] p \in {"collect", "pick"} -> 5
      [] p = "audio" -> 6
      [] p \in {"asm_load", "asm_concat", "asm_sync", "asm_write", "asm_exit"} -> 7
      [] OTHER -> 0

\* C22: within one run the stages execute strictly in the order metadata
\* load, story build, narration attempt, duration resolution, clip
\* selection, audio build, render; the only other transition is from a
\* stage to the terminal Failed state (or from the render to Done).
C22_StagesInOrder ==
    [][(StageOf(pc) > 0 /\ pc' # pc) =>
          \/ /\ StageOf(pc') > 0
             /\ StageOf(pc') \in {StageOf(pc), StageOf(pc) + 1}
          \/ /\ pc' = "returned"
             /\ ~result'[1].success \/ pc = "asm_exit"]_vars

\* C23: if metadata loading fails or story building raises, generate_video
\* returns a failed result with a descriptive message and no later stage
\* runs: no speech synthesis, no clip collection or probing, no audio build,
\* no render, and no output file is written.
C23_EarlyFailureStopsRun ==
    (("metadata" \in faults /\ exc = "none") \/ "story" \in faults) =>
        /\ pc = "returned"
        /\ result # <<>>
        /\ ~result[1].success
        /\ ~result[1].outfile
        /\ result[1].message = IF "story" \in faults
                               THEN "Story generation failed"
                               ELSE "Failed to load metadata"
        /\ faults \in {{"metadata"}, {"story"}}
        /\ "tts" \notin heavy
        /\ heavy = (IF "story" \in faults THEN {"story"} ELSE {})
        /\ clip_paths = <<>> /\ probed = {} /\ visuals = <<>>
        /\ opened = {}
        /\ ~wrote
        /\ rendered = <<>>

\* the story could not be built, in a run after one that left a video
C23_Witness ==
    /\ pc = "returned"
    /\ faults = {"story"}
    /\ outFile = "data"
    /\ ~result[1].success

\* the positions of a run from clip selection on
FromSelection == {"collect", "pick", "audio", "asm_load", "asm_concat",
                  "asm_sync", "asm_write", "asm_exit"}

\* C24: if narration synthesis fails, or narration is disabled, the run
\* does not fail at that point: narration is treated as absent, the
\* effective duration is E = T, and the run proceeds to clip selection.
C24_NarrationFailureIsAbsent ==
    (~cfg.use_tts \/ "tts" \in faults) =>
        /\ pc = "duration" =>
               ~voice_file /\ voice_duration = <<>> /\ result = <<>>
        /\ pc \in FromSelection =>
               /\ ~voice_file
               /\ voice_duration = <<>>
               /\ effective_duration = cfg.target_duration

\* the synthesis failed and the clips are selected for the whole target
C24_Witness ==
    /\ pc = "pick"
    /\ cfg.use_tts
    /\ "tts" \in faults
    /\ cfg.target_duration > Pad
    /\ effective_duration = cfg.target_duration

\* the positions of a run inside assemble_video
InRender == {"asm_load", "asm_concat", "asm_sync", "asm_write"}

\* C25: a failure while building or writing the audio mix never fails the
\* run: the run proceeds to the render stage, with the narration file alone
\* as its audio if a narration file exists and with no audio otherwise.
C25_MixFailureFallsBack ==
    /\ pc = "audio" => result = <<>> /\ exc = "none"
    /\ pc \in InRender =>
           /\ ("audio_mix" \in faults \/ audio_file # "mix") =>
                  audio_file = (IF voice_file THEN "voice" ELSE "none")
           /\ "audio_mix" \in faults => voice_file /\ audio_file = "voice"

\* the mix could not be built or written, and the render starts with the
\* narration file
C25_Witness ==
    /\ pc = "asm_load"
    /\ "audio_mix" \in faults
    /\ audio_file = "voice"
    /\ result = <<>>

\* C30: generate_video passes an audio file to assemble_video only if a
\* narration file was produced: when narration is disabled or the synthesis
\* fails, build_audio_track is never invoked and the render gets no audio,
\* whether or not a music file is there.
C30_NoNarrationNoAudio ==
    /\ audio_file # "none" => voice_file
    /\ (pc \in InRender /\ ~voice_file) =>
           /\ audio_file = "none"
           /\ "mix" \notin heavy
           /\ "music" \notin faults
           /\ \A h \in opened : h.kind \notin {"vo_mix", "music", "mix"}
    /\ (pc \in InRender /\ "mix" \in heavy) => voice_file

\* the synthesis failed and the render runs without audio
C30_Witness ==
    /\ pc = "asm_write"
    /\ cfg.use_tts
    /\ "tts" \in faults
    /\ audio_file = "none"
    /\ audio_clip = <<>>

\* C27: when the render fails with out-of-memory, the result has
\* success = false and the memory-specific message, never the generic
\* 'Rendering failed'; every other render exception gives the generic one.
C27_MemoryMessageIsDistinct ==
    [][(pc = "asm_exit" /\ pc' # "asm_exit" /\ exc # "none") =>
          /\ pc' = "returned"
          /\ ~result'[1].success
          /\ result'[1].message =
                 (IF exc = "MemoryError"
                  THEN "Rendering failed due to insufficient memory."
                  ELSE "Rendering failed")]_vars

\* a render that ran out of memory was reported with the memory message
C27_Witness ==
    /\ pc = "returned"
    /\ {"write", "concat"} \cap faults # {}
    /\ result[1].message = "Rendering failed due to insufficient memory."
    /\ ~result[1].success

\* C26: a failure anywhere in the subtitle stage never aborts
\* assemble_video: the error is caught and written to the error log, and
\* the video is still encoded to the output path, without subtitles.
C26_SubtitleFailureDoesNotAbort ==
    "subtitles" \in faults =>
        /\ "subtitles" \in logged
        /\ pc \in {"asm_exit", "returned"}
        /\ "write" \notin faults =>
               /\ wrote
               /\ rendered # <<>>
               /\ pc = "returned" => result[1].success /\ result[1].outfile

\* the subtitles failed and the run still returned its video
C26_Witness ==
    /\ pc = "returned"
    /\ "subtitles" \in faults
    /\ "subtitles" \in logged
    /\ wrote
    /\ result[1].success

\* the failures after which a run carries on
ContinuedFailures == HandlersThatLog \cup {"close"}

\* C28: no error is silently dropped: every exception caught in a run
\* (narration synthesis or measurement, clip load or trim, music or
\* narration load, audio mix, subtitle stage, handle close during cleanup)
\* leaves a log entry before the run carries on.
C28_EveryCaughtErrorLogged ==
    \A f \in faults \cap ContinuedFailures : f \in logged

=============================================================================
